---- MODULE Spec2Model ----
(***************************************************************************)
(* Habit Tracker: the daily rollover (checkDailyReset), the streak pair,   *)
(* the history log and the habit CRUD operations of script.js, together    *)
(* with the Firestore documents they are loaded from and saved to.         *)
(*                                                                         *)
(* `pc` is the position of the page: closed, between the loads and the     *)
(* rollover check, suspended at one of the three awaited writes of the     *)
(* rollover, loaded (rendered), failed (the load threw and was caught), on *)
(* the statistics page or on the weekly view.  Dates are day numbers; day  *)
(* d falls on weekday d % 7.  The user's operations act on a page that is  *)
(* not suspended inside the rollover.                                      *)
(*                                                                         *)
(* `second` is a second page of the same account (SpecTwo), `view` is what *)
(* the statistics page of stats.js renders (SpecStats), and SpecHabits     *)
(* follows the habit store alone over a larger number of habits.           *)
(* `outcome` is what the caller of a habit operation sees (SpecOps,        *)
(* SpecOpsFail, SpecRetry, SpecAnon) and `again` is a second run of the    *)
(* load on the same page while the first is suspended (SpecAgain).         *)
(* SpecAll adds the group deletion of the weekly view to Spec.             *)
(***************************************************************************)
EXTENDS Integers, Sequences, FiniteSets, TLC

\* ---------------------------------------------------------------- bounds
MaxDay == 3          \* the clock runs over days 1..MaxDay
MaxHabits == 2       \* habits created over the whole behaviour
MaxEdited == 1       \* habits of the store that carry edited fields
MaxStore == 4        \* habits created where only the habit store is followed

\* ------------------------------------------------------------- constants
NULL == 0            \* JavaScript null (lastDate, groupId)
DaysInWeek == 7      \* Date.getDay() ranges over 0..6

VARIABLES
    now,             \* the wall clock's date (getTodayDate)
    pc,              \* position of the page
    habits,          \* script.js: let habits = []
    history,         \* script.js: let history = {}
    streak,          \* script.js: let streak = 0
    bestStreak,      \* script.js: let bestStreak = 0
    lastDate,        \* script.js: let lastDate = null
    today,           \* checkDailyReset: const today
    inflight,        \* arguments of the awaited saveHistoryToFirestore call
    nextId,          \* habit ids generateId has handed out so far
    nextGroup,       \* group ids generateId has handed out so far
    dbHabits,        \* users/{uid}/habits/{habitId}
    dbHistory,       \* users/{uid}/history/{date}
    dbStats,         \* users/{uid}/stats/current
    loadedStats,     \* loadFromFirestore: const stats
    second,          \* a second page of the same user, open at the same time
    view,            \* what the statistics page has rendered
    outcome,         \* how the last handler call that is followed has settled
    again            \* a second run of loadFromFirestore on the same page

vars == <<now, pc, habits, history, streak, bestStreak, lastDate, today,
          inflight, nextId, nextGroup, dbHabits, dbHistory, dbStats,
          loadedStats, second, view, outcome, again>>

\* generateId (lines 101-103) returns a value it never returned before: the
\* habit ids are 1, 2, ... and the group ids -1, -2, ...
ids == <<nextId, nextGroup>>

local == <<habits, history, streak, bestStreak, lastDate, today, inflight>>
db == <<dbHabits, dbHistory, dbStats>>

\* the second page, the rendered statistics, the caller's view of a handler
\* and the second run of the load
aside == <<second, view, outcome, again>>

\* ------------------------------------------------------------- helpers
EmptyMap == [k \in {} |-> 0]

NoCall == [date |-> NULL, record |-> << >>]

\* no stats document has been read
NoStats == [streak |-> 0, bestStreak |-> 0, lastDate |-> NULL]

\* the second page before it is opened
NoPage == [pc |-> "closed", habits |-> << >>, stats |-> NoStats, streak |-> 0,
           bestStreak |-> 0, lastDate |-> NULL, today |-> NULL,
           inflight |-> NoCall]

\* calculateStats lines 310-314 on a list without data, as returned
NoStatsOfRange ==
    [totalTasks |-> 0, totalCompleted |-> 0, overallRate |-> 0, avgRate |-> 0,
     bestDay |-> [date |-> NULL, rate |-> 0 - 1],
     worstDay |-> [date |-> NULL, rate |-> 0], daysWithData |-> 0]

\* nothing has been rendered
NoView == [rendered |-> FALSE, dates |-> << >>, daily |-> << >>,
           stats |-> NoStatsOfRange, breakdown |-> << >>]

\* window.initHabitData has been called once
NoAgain == [pc |-> "idle", first |-> << >>, date |-> NULL, today |-> NULL,
            inflight |-> NoCall]

\* no handler call has been followed yet
NoOutcome == [op |-> "none", result |-> "none", calls |-> 0]

Range(s) == {s[i] : i \in DOMAIN s}

RECURSIVE SelectSeqBy(_, _)
\* Array.prototype.filter with the predicate "dayOfWeek === idx"
SelectSeqBy(s, idx) ==
    IF s = << >> THEN << >>
    ELSE IF Head(s).dayOfWeek = idx
         THEN <<Head(s)>> \o SelectSeqBy(Tail(s), idx)
         ELSE SelectSeqBy(Tail(s), idx)

\* getDayIndexFromDate: the weekday of a date
getDayIndexFromDate(d) == d % DaysInWeek

\* variant: the habits of the day before today are taken
yesterdayHabitsOfEve(hs, d) == SelectSeqBy(hs, getDayIndexFromDate(now - 1))

\* variant: every habit of the store is taken, whatever its weekday
yesterdayHabitsAll(hs, d) == hs

\* checkDailyReset line 258: habits.filter(h => h.dayOfWeek === yesterdayIndex)
yesterdayHabitsOf(hs, d) == SelectSeqBy(hs, getDayIndexFromDate(d))

\* variant: the entry is taken after the flag was cleared
recordEntryCleared(h) ==
    [id |-> h.id, groupId |-> h.groupId, name |-> h.name, completed |-> FALSE]

\* checkDailyReset lines 262-267: the snapshot entry of one habit
recordEntry(h) ==
    [id |-> h.id, groupId |-> h.groupId, name |-> h.name, completed |-> h.completed]

yesterdayRecordOf(sched) == [i \in DOMAIN sched |-> recordEntry(sched[i])]

\* checkDailyReset line 273: yesterdayHabits.every(h => h.completed)
allCompleted(sched) == \A i \in DOMAIN sched : sched[i].completed

\* variant: an incomplete day leaves the streak as it is
streakNoReset(s, sched) == IF allCompleted(sched) THEN s + 1 ELSE s

\* checkDailyReset lines 275-282, the streak
streakAfter(s, sched) == IF allCompleted(sched) THEN s + 1 ELSE 0

\* variant: the best streak is never raised
bestStreakKept(s, b, sched) == b

\* checkDailyReset lines 275-282, the best streak
bestStreakAfter(s, b, sched) ==
    IF allCompleted(sched) /\ s + 1 > b THEN s + 1 ELSE b

\* variant: the habits that were done are dropped from the array
resetDropsDone(hs) == SelectSeq(hs, LAMBDA h : ~h.completed)

\* variant: the flags are left as they are
resetSkipped(hs) == hs

\* checkDailyReset lines 286-288: habits.forEach(habit => habit.completed = false)
resetCompleted(hs) == [i \in DOMAIN hs |-> [hs[i] EXCEPT !.completed = FALSE]]

\* variant: the comparison with today is missing
needsResetNonNull(ld, td) == ld # NULL

\* checkDailyReset line 251: lastDate && lastDate !== today
needsReset(ld, td) == ld # NULL /\ ld # td

\* variant: the day before is stored as the last-active date
statsWithYesterday(s, b, td) == [streak |-> s, bestStreak |-> b, lastDate |-> td - 1]

\* saveToFirestore lines 233-237: the stats document that is written
statsToSave(s, b, td) == [streak |-> s, bestStreak |-> b, lastDate |-> td]

\* loadHabitsFromFirestore: the documents of the collection, in id order
RECURSIVE DocsInOrder(_, _)
DocsInOrder(docs, i) ==
    IF \A k \in DOMAIN docs : k < i THEN << >>
    ELSE IF i \in DOMAIN docs
         THEN <<docs[i]>> \o DocsInOrder(docs, i + 1)
         ELSE DocsInOrder(docs, i + 1)

loadHabitsFromFirestore == DocsInOrder(dbHabits, 1)

\* saveAllHabitsToFirestore: batch.set of every habit of the array
saveAllHabits(docs, hs) ==
    [k \in DOMAIN docs \cup {h.id : h \in Range(hs)} |->
        IF \E h \in Range(hs) : h.id = k
        THEN CHOOSE h \in Range(hs) : h.id = k
        ELSE docs[k]]

\* variant: the log is replaced by the one record
PutRecordOnly(log, d, rec) == [k \in {d} |-> rec]

\* saveHistoryToFirestore: setDoc of users/{uid}/history/{date}
PutRecord(log, d, rec) ==
    [k \in DOMAIN log \cup {d} |-> IF k = d THEN rec ELSE log[k]]

TypeOK ==
    /\ now \in 1..MaxDay
    /\ pc \in {"closed", "check", "awaitHistory", "awaitHabits", "awaitStats",
               "loaded", "failed", "stats", "weekly", "anonymous"}
    /\ streak \in Nat /\ bestStreak \in Nat
    /\ lastDate \in {NULL} \cup (1..MaxDay)
    /\ nextId \in 0..MaxHabits
    /\ nextGroup \in 0..MaxHabits

\* ---------------------------------------------------------------- Init
\* A new account as createUserDocument leaves it (no habits, no history,
\* streak 0, bestStreak 0).  Its stats document holds lastDate null, or,
\* for an account whose last-active date is already stored (the document
\* is returned as it is by loadStatsFromFirestore), the first day.
Init ==
    /\ now = 1
    /\ pc = "closed"
    /\ habits = << >>
    /\ history = EmptyMap
    /\ streak = 0
    /\ bestStreak = 0
    /\ lastDate = NULL
    /\ today = NULL
    /\ inflight = NoCall
    /\ nextId = 0
    /\ nextGroup = 0
    /\ dbHabits = EmptyMap
    /\ dbHistory = EmptyMap
    /\ dbStats \in {[streak |-> 0, bestStreak |-> 0, lastDate |-> ld] :
                        ld \in {NULL, 1}}
    /\ loadedStats = NoStats
    /\ second = NoPage
    /\ view = NoView
    /\ outcome = NoOutcome
    /\ again = NoAgain

\* ------------------------------------------------------------- the clock
\* The date changes; the page is not between two statements of one
\* synchronous run (pc = "check" is not an await).
Tick ==
    /\ now < MaxDay
    /\ pc # "check"
    /\ now' = now + 1
    /\ UNCHANGED <<pc, local, ids, db>>
    /\ UNCHANGED <<loadedStats, aside>>

\* ------------------------------------------------- session start: loading
\* window.initHabitData -> loadFromFirestore lines 176-204, on a fresh page
\* (module-level state at its initial values).
LoadFromFirestore ==
    /\ pc = "closed"
    /\ habits' = loadHabitsFromFirestore
    /\ history' = dbHistory
    /\ streak' = dbStats.streak
    /\ bestStreak' = dbStats.bestStreak
    /\ lastDate' = dbStats.lastDate
    /\ today' = NULL
    /\ inflight' = NoCall
    /\ pc' = "check"
    /\ UNCHANGED <<now, ids, db>>
    /\ loadedStats' = dbStats
    /\ UNCHANGED aside


\* ------------------------------------------------ rollover: checkDailyReset
\* variant: the record is written even when nothing was scheduled
hasScheduleAlways(sched) == TRUE

\* checkDailyReset line 261: yesterdayHabits.length > 0
hasSchedule(sched) == Len(sched) > 0

\* checkDailyReset lines 249-251 when the guard is false, then
\* loadFromFirestore lines 209-213 (isDataLoaded = true; render()).
CheckDailyResetCurrent ==
    /\ pc = "check"
    /\ ~needsReset(lastDate, now)
    /\ today' = now
    /\ pc' = "loaded"
    /\ UNCHANGED <<now, habits, history, streak, bestStreak, lastDate,
                   inflight, ids, db>>
    /\ UNCHANGED <<loadedStats, aside>>

\* checkDailyReset lines 249-270 when the guard is true and habits were
\* scheduled: the record is put in the local history and the page suspends
\* at the awaited saveHistoryToFirestore(lastDate, yesterdayRecord).
CheckDailyResetArchive ==
    /\ pc = "check"
    /\ needsReset(lastDate, now)
    /\ LET sched == yesterdayHabitsOf(habits, lastDate)
           rec == yesterdayRecordOf(sched)
       IN /\ hasSchedule(sched)
          /\ history' = PutRecord(history, lastDate, rec)
          /\ inflight' = [date |-> lastDate, record |-> rec]
    /\ today' = now
    /\ pc' = "awaitHistory"
    /\ UNCHANGED <<now, habits, streak, bestStreak, lastDate, ids, db>>
    /\ UNCHANGED <<loadedStats, aside>>

\* checkDailyReset lines 249-261 and 285-291 when the guard is true and no
\* habit was scheduled: no record, no streak change, the flags are reset,
\* lastDate becomes today and saveToFirestore suspends at its first write.
CheckDailyResetNoSchedule ==
    /\ pc = "check"
    /\ needsReset(lastDate, now)
    /\ ~hasSchedule(yesterdayHabitsOf(habits, lastDate))
    /\ today' = now
    /\ habits' = resetCompleted(habits)
    /\ lastDate' = now
    /\ pc' = "awaitHabits"
    /\ UNCHANGED <<now, history, streak, bestStreak, inflight, ids, db>>
    /\ UNCHANGED <<loadedStats, aside>>

\* The awaited history write succeeds (line 270); lines 272-291 follow:
\* streak and best streak, the reset of every flag, lastDate = today, and
\* saveToFirestore suspends at saveAllHabitsToFirestore.
HistorySaved ==
    /\ pc = "awaitHistory"
    /\ dbHistory' = PutRecord(dbHistory, inflight.date, inflight.record)
    /\ LET sched == yesterdayHabitsOf(habits, lastDate)
       IN /\ streak' = streakAfter(streak, sched)
          /\ bestStreak' = bestStreakAfter(streak, bestStreak, sched)
    /\ habits' = resetCompleted(habits)
    /\ lastDate' = today
    /\ inflight' = NoCall
    /\ pc' = "awaitHabits"
    /\ UNCHANGED <<now, history, today, ids, dbHabits, dbStats>>
    /\ UNCHANGED <<loadedStats, aside>>

\* saveToFirestore line 230 succeeds; the page suspends at line 233.
HabitsSaved ==
    /\ pc = "awaitHabits"
    /\ dbHabits' = saveAllHabits(dbHabits, habits)
    /\ pc' = "awaitStats"
    /\ UNCHANGED <<now, local, ids, dbHistory, dbStats>>
    /\ UNCHANGED <<loadedStats, aside>>

\* saveToFirestore lines 233-237 succeed; checkDailyReset returns and
\* loadFromFirestore finishes (lines 209-213).
StatsSaved ==
    /\ pc = "awaitStats"
    /\ dbStats' = statsToSave(streak, bestStreak, now)
    /\ pc' = "loaded"
    /\ UNCHANGED <<now, local, ids, dbHabits, dbHistory>>
    /\ UNCHANGED <<loadedStats, aside>>

\* ------------------------------------------- rollover: persistence failures
\* saveHistoryToFirestore throws: checkDailyReset rejects and the catch of
\* loadFromFirestore (line 214) swallows it; nothing after line 270 runs.
HistorySaveFails ==
    /\ pc = "awaitHistory"
    /\ inflight' = NoCall
    /\ pc' = "failed"
    /\ UNCHANGED <<now, habits, history, streak, bestStreak, lastDate, today,
                   ids, db>>
    /\ UNCHANGED <<loadedStats, aside>>

\* saveAllHabitsToFirestore throws: the catch of saveToFirestore (line 240)
\* swallows it, the stats write is skipped, loadFromFirestore finishes.
HabitsSaveFails ==
    /\ pc = "awaitHabits"
    /\ pc' = "loaded"
    /\ UNCHANGED <<now, local, ids, db>>
    /\ UNCHANGED <<loadedStats, aside>>

\* saveStatsToFirestore throws: swallowed at line 240.
StatsSaveFails ==
    /\ pc = "awaitStats"
    /\ pc' = "loaded"
    /\ UNCHANGED <<now, local, ids, db>>
    /\ UNCHANGED <<loadedStats, aside>>


\* ------------------------------------------------- habit CRUD operations
\* The handlers run on a page whose load has finished (rendered, or failed
\* and caught); they are not interleaved with a suspended rollover.
Interactive == pc \in {"loaded", "failed"}

\* number of habits of the store that the edit form has changed
EditedCount(hs) == Cardinality({i \in DOMAIN hs : hs[i].name # "run"})

\* the values the add form submits for every selected day
FormFields == [name |-> "run", time |-> "09:00", description |-> ""]

\* the values the edit form submits
EditFields == [name |-> "jog", time |-> "10:00", description |-> "slow"]

\* the day-config maps the add form submits here: Monday, Tuesday, or both
FormDaySets == {{1}, {2}, {1, 2}}

RECURSIVE SortedDays(_)
\* Object.keys(dayConfigs).map(Number): integer keys come in ascending order
SortedDays(S) ==
    IF S = {} THEN << >>
    ELSE LET m == CHOOSE x \in S : \A y \in S : x <= y
         IN <<m>> \o SortedDays(S \ {m})

\* variant: a group id is generated for a single day too
newGroupIdAlways(days, g) == 0 - (g + 1)

\* addHabits line 467: the group id, generated when several days are given
newGroupId(days, g) == IF Cardinality(days) > 1 THEN 0 - (g + 1) ELSE NULL

groupIdsNeeded(days) == IF Cardinality(days) > 1 THEN 1 ELSE 0

\* variant: the id is generated once for the whole call, as the group id is
newHabitsOfOneId(days, base, g) ==
    LET ds == SortedDays(days)
    IN [i \in DOMAIN ds |->
          [id |-> base + 1,
           groupId |-> newGroupId(days, g),
           dayOfWeek |-> ds[i],
           name |-> FormFields.name,
           time |-> FormFields.time,
           description |-> FormFields.description,
           completed |-> FALSE]]

\* addHabits lines 469-481: one habit per day, in the order of the keys
newHabitsOf(days, base, g) ==
    LET ds == SortedDays(days)
    IN [i \in DOMAIN ds |->
          [id |-> base + i,
           groupId |-> newGroupId(days, g),
           dayOfWeek |-> ds[i],
           name |-> FormFields.name,
           time |-> FormFields.time,
           description |-> FormFields.description,
           completed |-> FALSE]]

\* saveHabitToFirestore for the first k habits of a list
saveHabitsUpTo(docs, hs, k) ==
    [j \in DOMAIN docs \cup {hs[i].id : i \in 1..k} |->
        IF \E i \in 1..k : hs[i].id = j
        THEN hs[CHOOSE i \in 1..k : hs[i].id = j]
        ELSE docs[j]]

\* variant: the array is put back as it was when the write fails
rolledBack(before, applied) == before

\* the array after a write has thrown: addHabits lines 501-504 catch the
\* error and do not roll back; toggleHabit, deleteHabit and updateHabit have
\* no catch, the statements before the await have run and nothing follows
keptOnError(before, applied) == applied

\* how the promise of a handler settles: addHabits catches the error of its
\* writes (lines 494-504); toggleHabit, deleteHabit and updateHabit await
\* theirs without a catch, and return normally when find() gives undefined
settled(op, found, saved) ==
    IF op # "add" /\ found /\ ~saved THEN "rejected" ELSE "resolved"

\* addHabits lines 458-500, every saveHabitToFirestore succeeding
AddHabits(days) ==
    /\ Interactive
    /\ nextId + Cardinality(days) <= MaxHabits
    /\ LET new == newHabitsOf(days, nextId, nextGroup)
       IN /\ habits' = habits \o new
          /\ dbHabits' = saveHabitsUpTo(dbHabits, new, Len(new))
    /\ nextId' = nextId + Cardinality(days)
    /\ nextGroup' = nextGroup + groupIdsNeeded(days)
    /\ UNCHANGED <<now, pc, history, streak, bestStreak, lastDate, today,
                   inflight, dbHistory, dbStats>>
    /\ UNCHANGED <<loadedStats, aside>>

\* addHabits lines 458-504, the (k+1)-th saveHabitToFirestore throwing: the
\* habits stay in the array (no rollback), the first k are stored
AddHabitsSaveFails(days, k) ==
    /\ Interactive
    /\ nextId + Cardinality(days) <= MaxHabits
    /\ k < Cardinality(days)
    /\ LET new == newHabitsOf(days, nextId, nextGroup)
       IN /\ habits' = keptOnError(habits, habits \o new)
          /\ dbHabits' = saveHabitsUpTo(dbHabits, new, k)
    /\ nextId' = nextId + Cardinality(days)
    /\ nextGroup' = nextGroup + groupIdsNeeded(days)
    /\ outcome' = [op |-> "add", result |-> settled("add", TRUE, FALSE),
                   calls |-> k + 1]
    /\ UNCHANGED <<now, pc, history, streak, bestStreak, lastDate, today,
                   inflight, dbHistory, dbStats>>
    /\ UNCHANGED <<loadedStats, second, view, again>>

\* habits.find(h => h.id === id) succeeds
HasHabit(hs, id) == \E i \in DOMAIN hs : hs[i].id = id

\* variant: the siblings of the habit's group are flipped with it
toggledGroup(hs, id) ==
    [i \in DOMAIN hs |->
        IF \/ hs[i].id = id
           \/ \E j \in DOMAIN hs : /\ hs[j].id = id
                                    /\ hs[j].groupId # NULL
                                    /\ hs[j].groupId = hs[i].groupId
        THEN [hs[i] EXCEPT !.completed = ~hs[i].completed]
        ELSE hs[i]]

\* toggleHabit line 510
toggled(hs, id) ==
    [i \in DOMAIN hs |->
        IF hs[i].id = id THEN [hs[i] EXCEPT !.completed = ~hs[i].completed]
        ELSE hs[i]]

\* variant: the update reaches the siblings of the habit's group
assignedToGroup(hs, id, updates) ==
    [i \in DOMAIN hs |->
        IF \/ hs[i].id = id
           \/ \E j \in DOMAIN hs : /\ hs[j].id = id
                                    /\ hs[j].groupId # NULL
                                    /\ hs[j].groupId = hs[i].groupId
        THEN [hs[i] EXCEPT !.name = updates.name, !.time = updates.time,
                           !.description = updates.description]
        ELSE hs[i]]

\* Object.assign(habit, updates) on the habit with this id
assigned(hs, id, updates) ==
    [i \in DOMAIN hs |->
        IF hs[i].id = id
        THEN [hs[i] EXCEPT !.name = updates.name, !.time = updates.time,
                           !.description = updates.description]
        ELSE hs[i]]

HabitOf(hs, id) == hs[CHOOSE i \in DOMAIN hs : hs[i].id = id]

\* variant: the siblings of the habit go with it
withoutSiblings(hs, id) ==
    LET g == HabitOf(hs, id).groupId
    IN SelectSeq(hs, LAMBDA h : h.id # id /\ (g = NULL \/ h.groupId # g))

\* habits.filter(h => h.id !== id)
RECURSIVE without(_, _)
without(hs, id) ==
    IF hs = << >> THEN << >>
    ELSE IF Head(hs).id = id THEN without(Tail(hs), id)
         ELSE <<Head(hs)>> \o without(Tail(hs), id)

\* toggleHabit lines 507-514; updateDoc succeeds (the document exists)
ToggleHabit(id) ==
    /\ Interactive
    /\ HasHabit(habits, id)
    /\ id \in DOMAIN dbHabits
    /\ habits' = toggled(habits, id)
    /\ dbHabits' = [dbHabits EXCEPT
                      ![id].completed = HabitOf(toggled(habits, id), id).completed]
    /\ UNCHANGED <<now, pc, history, streak, bestStreak, lastDate, today,
                   inflight, ids, dbHistory, dbStats>>
    /\ UNCHANGED <<loadedStats, aside>>

\* toggleHabit lines 507-511, updateHabitInFirestore throwing (also when the
\* document does not exist): the flag stays flipped in memory
ToggleHabitSaveFails(id) ==
    /\ Interactive
    /\ HasHabit(habits, id)
    /\ habits' = keptOnError(habits, toggled(habits, id))
    /\ outcome' = [op |-> "toggle", result |-> settled("toggle", TRUE, FALSE),
                   calls |-> 1]
    /\ UNCHANGED <<now, pc, history, streak, bestStreak, lastDate, today,
                   inflight, ids, db>>
    /\ UNCHANGED <<loadedStats, second, view, again>>

\* updateHabit lines 538-545 called by the edit form (lines 947-960)
UpdateHabit(id) ==
    /\ Interactive
    /\ HasHabit(habits, id)
    /\ EditedCount(habits) < MaxEdited
    /\ id \in DOMAIN dbHabits
    /\ habits' = assigned(habits, id, EditFields)
    /\ dbHabits' = [dbHabits EXCEPT ![id].name = EditFields.name,
                                    ![id].time = EditFields.time,
                                    ![id].description = EditFields.description]
    /\ UNCHANGED <<now, pc, history, streak, bestStreak, lastDate, today,
                   inflight, ids, dbHistory, dbStats>>
    /\ UNCHANGED <<loadedStats, aside>>

UpdateHabitSaveFails(id) ==
    /\ Interactive
    /\ HasHabit(habits, id)
    /\ EditedCount(habits) < MaxEdited
    /\ habits' = keptOnError(habits, assigned(habits, id, EditFields))
    /\ outcome' = [op |-> "update", result |-> settled("update", TRUE, FALSE),
                   calls |-> 1]
    /\ UNCHANGED <<now, pc, history, streak, bestStreak, lastDate, today,
                   inflight, ids, db>>
    /\ UNCHANGED <<loadedStats, second, view, again>>

\* deleteHabit lines 516-536 with the confirm() dialog accepted
DeleteHabit(id) ==
    /\ Interactive
    /\ HasHabit(habits, id)
    /\ habits' = without(habits, id)
    /\ dbHabits' = [k \in DOMAIN dbHabits \ {id} |-> dbHabits[k]]
    /\ UNCHANGED <<now, pc, history, streak, bestStreak, lastDate, today,
                   inflight, ids, dbHistory, dbStats>>
    /\ UNCHANGED <<loadedStats, aside>>

DeleteHabitSaveFails(id) ==
    /\ Interactive
    /\ HasHabit(habits, id)
    /\ habits' = keptOnError(habits, without(habits, id))
    /\ outcome' = [op |-> "delete", result |-> settled("delete", TRUE, FALSE),
                   calls |-> 1]
    /\ UNCHANGED <<now, pc, history, streak, bestStreak, lastDate, today,
                   inflight, ids, db>>
    /\ UNCHANGED <<loadedStats, second, view, again>>

\* addHabits lines 458-500 as AddHabits, with room for `cap` habits
AddHabitsWithin(days, cap) ==
    /\ Interactive
    /\ nextId + Cardinality(days) <= cap
    /\ LET new == newHabitsOf(days, nextId, nextGroup)
       IN /\ habits' = habits \o new
          /\ dbHabits' = saveHabitsUpTo(dbHabits, new, Len(new))
    /\ nextId' = nextId + Cardinality(days)
    /\ nextGroup' = nextGroup + groupIdsNeeded(days)
    /\ UNCHANGED <<now, pc, history, streak, bestStreak, lastDate, today,
                   inflight, dbHistory, dbStats>>
    /\ UNCHANGED <<loadedStats, aside>>

\* toggleHabit lines 508-509 when habits.find returns undefined: the body of
\* the if is skipped, no call is made
ToggleHabitNotFound(id) ==
    /\ Interactive
    /\ ~HasHabit(habits, id)
    /\ habits' = toggled(habits, id)
    /\ UNCHANGED <<now, pc, history, streak, bestStreak, lastDate, today,
                   inflight, ids, db>>
    /\ UNCHANGED <<loadedStats, aside>>

\* deleteHabitGroup: habits.filter(h => !groupIds.includes(h.id)) with
\* groupIds the ids of habits.filter(h => h.groupId === habit.groupId)
withoutGroup(hs, g) ==
    LET groupIds == {hs[i].id : i \in {j \in DOMAIN hs : hs[j].groupId = g}}
    IN SelectSeq(hs, LAMBDA h : h.id \notin groupIds)

\* the weekly view is opened: its loadHabitsFromFirestore fills the habits of
\* that page
OpenWeeklyPage ==
    /\ pc = "closed"
    /\ habits' = loadHabitsFromFirestore
    /\ pc' = "weekly"
    /\ UNCHANGED <<now, history, streak, bestStreak, lastDate, today, inflight,
                   ids, db, loadedStats, aside>>

\* deleteHabitGroup of the weekly view with the confirm() dialog accepted and
\* every deleteHabitFromFirestore succeeding
DeleteHabitGroup(id) ==
    /\ pc = "weekly"
    /\ HasHabit(habits, id)
    /\ HabitOf(habits, id).groupId # NULL
    /\ LET g == HabitOf(habits, id).groupId
           groupHabits == {i \in DOMAIN habits : habits[i].groupId = g}
       IN /\ habits' = withoutGroup(habits, g)
          /\ dbHabits' = [k \in DOMAIN dbHabits \ {habits[i].id : i \in groupHabits}
                             |-> dbHabits[k]]
    /\ UNCHANGED <<now, pc, history, streak, bestStreak, lastDate, today,
                   inflight, ids, dbHistory, dbStats, loadedStats, aside>>

\* ------------------------------------------------------ pages come and go
\* ---------------------------------- habit operations seen by their caller
\* The same handlers with the settlement of the returned promise and the
\* number of calls made to the database layer recorded in `outcome`.
AddHabitsCall(days) ==
    /\ Interactive
    /\ nextId + Cardinality(days) <= MaxHabits
    /\ LET new == newHabitsOf(days, nextId, nextGroup)
       IN /\ habits' = habits \o new
          /\ dbHabits' = saveHabitsUpTo(dbHabits, new, Len(new))
    /\ nextId' = nextId + Cardinality(days)
    /\ nextGroup' = nextGroup + groupIdsNeeded(days)
    /\ outcome' = [op |-> "add", result |-> settled("add", TRUE, TRUE),
                   calls |-> Cardinality(days)]
    /\ UNCHANGED <<now, pc, history, streak, bestStreak, lastDate, today,
                   inflight, dbHistory, dbStats, loadedStats, second, view, again>>

ToggleHabitCall(id) ==
    /\ Interactive
    /\ HasHabit(habits, id)
    /\ id \in DOMAIN dbHabits
    /\ habits' = toggled(habits, id)
    /\ dbHabits' = [dbHabits EXCEPT
                      ![id].completed = HabitOf(toggled(habits, id), id).completed]
    /\ outcome' = [op |-> "toggle", result |-> settled("toggle", TRUE, TRUE),
                   calls |-> 1]
    /\ UNCHANGED <<now, pc, history, streak, bestStreak, lastDate, today,
                   inflight, ids, dbHistory, dbStats, loadedStats, second, view, again>>

UpdateHabitCall(id) ==
    /\ Interactive
    /\ HasHabit(habits, id)
    /\ EditedCount(habits) < MaxEdited
    /\ id \in DOMAIN dbHabits
    /\ habits' = assigned(habits, id, EditFields)
    /\ dbHabits' = [dbHabits EXCEPT ![id].name = EditFields.name,
                                    ![id].time = EditFields.time,
                                    ![id].description = EditFields.description]
    /\ outcome' = [op |-> "update", result |-> settled("update", TRUE, TRUE),
                   calls |-> 1]
    /\ UNCHANGED <<now, pc, history, streak, bestStreak, lastDate, today,
                   inflight, ids, dbHistory, dbStats, loadedStats, second, view, again>>

DeleteHabitCall(id) ==
    /\ Interactive
    /\ HasHabit(habits, id)
    /\ habits' = without(habits, id)
    /\ dbHabits' = [k \in DOMAIN dbHabits \ {id} |-> dbHabits[k]]
    /\ outcome' = [op |-> "delete", result |-> settled("delete", TRUE, TRUE),
                   calls |-> 1]
    /\ UNCHANGED <<now, pc, history, streak, bestStreak, lastDate, today,
                   inflight, ids, dbHistory, dbStats, loadedStats, second, view, again>>

\* updateHabit lines 539-540 when habits.find returns undefined: the body of
\* the if is skipped and the function returns
UpdateHabitNotFound(id) ==
    /\ Interactive
    /\ ~HasHabit(habits, id)
    /\ habits' = assigned(habits, id, EditFields)
    /\ outcome' = [op |-> "update", result |-> settled("update", FALSE, TRUE),
                   calls |-> 0]
    /\ UNCHANGED <<now, pc, history, streak, bestStreak, lastDate, today,
                   inflight, ids, db, loadedStats, second, view, again>>

\* deleteHabit lines 517-518: if (!habit) return
DeleteHabitNotFound(id) ==
    /\ Interactive
    /\ ~HasHabit(habits, id)
    /\ habits' = without(habits, id)
    /\ outcome' = [op |-> "delete", result |-> settled("delete", FALSE, TRUE),
                   calls |-> 0]
    /\ UNCHANGED <<now, pc, history, streak, bestStreak, lastDate, today,
                   inflight, ids, db, loadedStats, second, view, again>>

\* ---------------------------------- the load is run twice on the same page
\* window.initHabitData (lines 1023-1026) is called a second time while the
\* first run is suspended at its history write.  The second run shares the
\* module state with the first.  Its three loads are taken together with its
\* rollover check, the first run staying suspended meanwhile: it replaces
\* the habits array by newly loaded objects (line 195), so that the
\* yesterdayHabits of the first run, kept in `first`, are objects no longer
\* in the array, and it reaches the await of line 270 with lastDate unchanged.
InitHabitDataAgain ==
    /\ pc = "awaitHistory"
    /\ again.pc = "idle"
    /\ LET hs == loadHabitsFromFirestore
           ld == dbStats.lastDate
           sched == yesterdayHabitsOf(hs, ld)
           rec == yesterdayRecordOf(sched)
       IN /\ needsReset(ld, now)
          /\ hasSchedule(sched)
          /\ habits' = hs
          /\ history' = PutRecord(dbHistory, ld, rec)
          /\ streak' = dbStats.streak
          /\ bestStreak' = dbStats.bestStreak
          /\ lastDate' = ld
          /\ again' = [pc |-> "awaitHistory",
                       first |-> yesterdayHabitsOf(habits, lastDate),
                       date |-> ld,
                       today |-> now,
                       inflight |-> [date |-> ld, record |-> rec]]
    /\ UNCHANGED <<now, pc, today, inflight, ids, db, loadedStats, second,
                   view, outcome>>

\* The history write of the first run succeeds after the second run has
\* replaced the array: lines 272-291 read the flags of the objects the first
\* run had filtered, and reset the objects of the array.
HistorySavedDetached ==
    /\ pc = "awaitHistory"
    /\ again.pc # "idle"
    /\ dbHistory' = PutRecord(dbHistory, inflight.date, inflight.record)
    /\ streak' = streakAfter(streak, again.first)
    /\ bestStreak' = bestStreakAfter(streak, bestStreak, again.first)
    /\ habits' = resetCompleted(habits)
    /\ lastDate' = today
    /\ inflight' = NoCall
    /\ pc' = "awaitHabits"
    /\ UNCHANGED <<now, history, today, ids, dbHabits, dbStats, loadedStats,
                   aside>>

\* The history write of the second run succeeds; lines 272-291 of that run.
\* Its yesterdayHabits are objects of the array, with the flags they have now.
AgainHistorySaved ==
    /\ again.pc = "awaitHistory"
    /\ pc \in {"awaitHistory", "awaitHabits", "awaitStats", "loaded"}
    /\ dbHistory' = PutRecord(dbHistory, again.inflight.date,
                              again.inflight.record)
    /\ LET sched == yesterdayHabitsOf(habits, again.date)
       IN /\ streak' = streakAfter(streak, sched)
          /\ bestStreak' = bestStreakAfter(streak, bestStreak, sched)
    /\ habits' = resetCompleted(habits)
    /\ lastDate' = again.today
    /\ again' = [again EXCEPT !.pc = "awaitHabits", !.inflight = NoCall]
    /\ UNCHANGED <<now, pc, history, today, inflight, ids, dbHabits, dbStats,
                   loadedStats, second, view, outcome>>

\* saveToFirestore of the second run, line 230
AgainHabitsSaved ==
    /\ again.pc = "awaitHabits"
    /\ dbHabits' = saveAllHabits(dbHabits, habits)
    /\ again' = [again EXCEPT !.pc = "awaitStats"]
    /\ UNCHANGED <<now, pc, local, ids, dbHistory, dbStats, loadedStats,
                   second, view, outcome>>

\* saveToFirestore of the second run, lines 233-237
AgainStatsSaved ==
    /\ again.pc = "awaitStats"
    /\ dbStats' = statsToSave(streak, bestStreak, now)
    /\ again' = [again EXCEPT !.pc = "done"]
    /\ UNCHANGED <<now, pc, local, ids, dbHabits, dbHistory, loadedStats,
                   second, view, outcome>>

\* ------------------------------------------- a page without a signed-in user
\* init (lines 1002-1016) binds the handlers before anyone is signed in, and
\* loadFromFirestore returns at lines 182-186 when getCurrentUserId() gives
\* null: nothing is loaded, checkDailyReset is not reached, and the page
\* stays with the initial values of its module state.
LoadFromFirestoreNoUser ==
    /\ pc = "closed"
    /\ pc' = "anonymous"
    /\ outcome' = [op |-> "load", result |-> "resolved", calls |-> 0]
    /\ UNCHANGED <<now, local, ids, db, loadedStats, second, view, again>>

\* addHabits lines 458-504 without a user: the habits are pushed (line 486),
\* the first saveHabitToFirestore throws 'Authentication required' before it
\* writes, the catch keeps the habits
AddHabitsNoUser(days) ==
    /\ pc = "anonymous"
    /\ nextId + Cardinality(days) <= MaxHabits
    /\ habits' = keptOnError(habits,
                             habits \o newHabitsOf(days, nextId, nextGroup))
    /\ nextId' = nextId + Cardinality(days)
    /\ nextGroup' = nextGroup + groupIdsNeeded(days)
    /\ outcome' = [op |-> "add", result |-> settled("add", TRUE, FALSE),
                   calls |-> 1]
    /\ UNCHANGED <<now, pc, history, streak, bestStreak, lastDate, today,
                   inflight, db, loadedStats, second, view, again>>

\* toggleHabit lines 507-511 without a user: the flag is flipped, then
\* updateHabitInFirestore throws
ToggleHabitNoUser(id) ==
    /\ pc = "anonymous"
    /\ HasHabit(habits, id)
    /\ habits' = keptOnError(habits, toggled(habits, id))
    /\ outcome' = [op |-> "toggle", result |-> settled("toggle", TRUE, FALSE),
                   calls |-> 1]
    /\ UNCHANGED <<now, pc, history, streak, bestStreak, lastDate, today,
                   inflight, ids, db, loadedStats, second, view, again>>

\* updateHabit lines 538-542 without a user
UpdateHabitNoUser(id) ==
    /\ pc = "anonymous"
    /\ HasHabit(habits, id)
    /\ EditedCount(habits) < MaxEdited
    /\ habits' = keptOnError(habits, assigned(habits, id, EditFields))
    /\ outcome' = [op |-> "update", result |-> settled("update", TRUE, FALSE),
                   calls |-> 1]
    /\ UNCHANGED <<now, pc, history, streak, bestStreak, lastDate, today,
                   inflight, ids, db, loadedStats, second, view, again>>

\* deleteHabit lines 516-534 without a user, the confirm() dialog accepted
DeleteHabitNoUser(id) ==
    /\ pc = "anonymous"
    /\ HasHabit(habits, id)
    /\ habits' = keptOnError(habits, without(habits, id))
    /\ outcome' = [op |-> "delete", result |-> settled("delete", TRUE, FALSE),
                   calls |-> 1]
    /\ UNCHANGED <<now, pc, history, streak, bestStreak, lastDate, today,
                   inflight, ids, db, loadedStats, second, view, again>>

\* The page is closed or reloaded: the module-level state of script.js is
\* gone and starts from its initial values (lines 41-48) on the next load.
ClosePage ==
    /\ pc \in {"loaded", "failed", "stats", "weekly", "anonymous"}
    /\ pc' = "closed"
    /\ habits' = << >>
    /\ history' = EmptyMap
    /\ streak' = 0
    /\ bestStreak' = 0
    /\ lastDate' = NULL
    /\ today' = NULL
    /\ inflight' = NoCall
    /\ UNCHANGED <<now, ids, db>>
    /\ loadedStats' = NoStats
    /\ again' = NoAgain
    /\ UNCHANGED <<second, view, outcome>>

\* stats.js loadFromFirestore lines 224-235: the best streak is raised to the
\* streak and the stats document rewritten when the streak is higher
statsAfterStatsPage(stats) ==
    IF stats.streak > stats.bestStreak
    THEN [stats EXCEPT !.bestStreak = stats.streak]
    ELSE stats

\* The statistics page is opened: stats.js loadFromFirestore lines 202-241.
\* Its module has habits, history, streak and bestStreak of its own and no
\* lastDate.
OpenStatsPage ==
    /\ pc = "closed"
    /\ habits' = loadHabitsFromFirestore
    /\ history' = dbHistory
    /\ streak' = dbStats.streak
    /\ bestStreak' = statsAfterStatsPage(dbStats).bestStreak
    /\ dbStats' = statsAfterStatsPage(dbStats)
    /\ pc' = "stats"
    /\ UNCHANGED <<now, lastDate, today, inflight, ids, dbHabits, dbHistory>>
    /\ UNCHANGED <<loadedStats, aside>>

\* ------------------------------------------- a second page of the same user
\* Another tab or device runs the same script.js against the same documents.
\* Its load is followed read by read, so the writes of the first page can
\* fall between them.  The history read (line 198) lies between the two
\* reads below; this page writes nothing that depends on it.

\* variant: the streak is taken from the stats document as it is now
streakBaseStored(loaded, stored) == stored

\* checkDailyReset line 275: streak++ works on the module variable, which
\* holds what loadFromFirestore read (line 202)
streakBase(loaded, stored) == loaded

\* loadFromFirestore line 195: habits = await loadHabitsFromFirestore()
SecondLoadsHabits ==
    /\ second.pc = "closed"
    /\ second' = [NoPage EXCEPT !.pc = "readStats",
                                !.habits = loadHabitsFromFirestore]
    /\ UNCHANGED <<now, pc, local, ids, db, loadedStats, view, outcome, again>>

\* loadFromFirestore lines 201-204: the stats document is read
SecondLoadsStats ==
    /\ second.pc = "readStats"
    /\ second' = [second EXCEPT !.pc = "check",
                                !.stats = dbStats,
                                !.streak = dbStats.streak,
                                !.bestStreak = dbStats.bestStreak,
                                !.lastDate = dbStats.lastDate]
    /\ UNCHANGED <<now, pc, local, ids, db, loadedStats, view, outcome, again>>

\* checkDailyReset lines 249-251, the guard false
SecondCheckCurrent ==
    /\ second.pc = "check"
    /\ ~needsReset(second.lastDate, now)
    /\ second' = [second EXCEPT !.pc = "loaded", !.today = now]
    /\ UNCHANGED <<now, pc, local, ids, db, loadedStats, view, outcome, again>>

\* checkDailyReset lines 249-270, suspended at saveHistoryToFirestore
SecondCheckArchive ==
    /\ second.pc = "check"
    /\ needsReset(second.lastDate, now)
    /\ LET sched == yesterdayHabitsOf(second.habits, second.lastDate)
       IN /\ hasSchedule(sched)
          /\ second' = [second EXCEPT
                          !.pc = "awaitHistory",
                          !.today = now,
                          !.inflight = [date |-> second.lastDate,
                                        record |-> yesterdayRecordOf(sched)]]
    /\ UNCHANGED <<now, pc, local, ids, db, loadedStats, view, outcome, again>>

\* checkDailyReset lines 249-261 and 285-291, nothing scheduled
SecondCheckNoSchedule ==
    /\ second.pc = "check"
    /\ needsReset(second.lastDate, now)
    /\ ~hasSchedule(yesterdayHabitsOf(second.habits, second.lastDate))
    /\ second' = [second EXCEPT !.pc = "awaitHabits",
                                !.today = now,
                                !.habits = resetCompleted(second.habits),
                                !.lastDate = now]
    /\ UNCHANGED <<now, pc, local, ids, db, loadedStats, view, outcome, again>>

\* line 270 succeeds, lines 272-291 follow
SecondHistorySaved ==
    /\ second.pc = "awaitHistory"
    /\ dbHistory' = PutRecord(dbHistory, second.inflight.date,
                              second.inflight.record)
    /\ LET sched == yesterdayHabitsOf(second.habits, second.lastDate)
           base == streakBase(second.streak, dbStats.streak)
       IN second' = [second EXCEPT
                       !.pc = "awaitHabits",
                       !.streak = streakAfter(base, sched),
                       !.bestStreak = bestStreakAfter(base, second.bestStreak, sched),
                       !.habits = resetCompleted(second.habits),
                       !.lastDate = second.today,
                       !.inflight = NoCall]
    /\ UNCHANGED <<now, pc, local, ids, dbHabits, dbStats, loadedStats, view, outcome, again>>

\* saveToFirestore line 230
SecondHabitsSaved ==
    /\ second.pc = "awaitHabits"
    /\ dbHabits' = saveAllHabits(dbHabits, second.habits)
    /\ second' = [second EXCEPT !.pc = "awaitStats"]
    /\ UNCHANGED <<now, pc, local, ids, dbHistory, dbStats, loadedStats, view, outcome, again>>

\* saveToFirestore lines 233-237
SecondStatsSaved ==
    /\ second.pc = "awaitStats"
    /\ dbStats' = statsToSave(second.streak, second.bestStreak, now)
    /\ second' = [second EXCEPT !.pc = "loaded"]
    /\ UNCHANGED <<now, pc, local, ids, dbHabits, dbHistory, loadedStats, view, outcome, again>>

\* the second page is closed
SecondClosePage ==
    /\ second.pc = "loaded"
    /\ second' = NoPage
    /\ UNCHANGED <<now, pc, local, ids, db, loadedStats, view, outcome, again>>

SecondPage ==
    \/ SecondLoadsHabits
    \/ SecondLoadsStats
    \/ SecondCheckCurrent
    \/ SecondCheckArchive
    \/ SecondCheckNoSchedule
    \/ SecondHistorySaved
    \/ SecondHabitsSaved
    \/ SecondStatsSaved
    \/ SecondClosePage

\* ------------------------------------------- the statistics page: stats.js
\* Math.round((completed / total) * 100) for total > 0: the nearest integer,
\* a half going upward (the quotients of the totals that occur here are
\* computed without rounding error)
roundRate(completed, total) == (200 * completed + total) \div (2 * total)

\* array.filter(h => h.completed).length
countCompleted(arr) == Cardinality({i \in DOMAIN arr : arr[i].completed})

\* variant: no date is taken as today
isTodayNever(date, td) == FALSE

\* date === today
isToday(date, td) == date = td

\* getDateStats lines 167-192
getDateStats(hs, log, td, date) ==
    IF isToday(date, td)
    THEN [total |-> Len(hs),
          completed |-> countCompleted(hs),
          rate |-> IF Len(hs) = 0 THEN 0
                   ELSE roundRate(countCompleted(hs), Len(hs))]
    ELSE IF date \in DOMAIN log /\ Len(log[date]) > 0
         THEN [total |-> Len(log[date]),
               completed |-> countCompleted(log[date]),
               rate |-> roundRate(countCompleted(log[date]), Len(log[date]))]
         ELSE [total |-> 0, completed |-> 0, rate |-> 0]

\* calculateStats lines 316-332: dates.forEach over the rest of the list
RECURSIVE statsOver(_, _, _, _, _)
statsOver(hs, log, td, dates, acc) ==
    IF dates = << >> THEN acc
    ELSE LET date == Head(dates)
             st == getDateStats(hs, log, td, date)
             nxt == IF st.total > 0
                    THEN [totalTasks |-> acc.totalTasks + st.total,
                          totalCompleted |-> acc.totalCompleted + st.completed,
                          daysWithData |-> acc.daysWithData + 1,
                          bestDay |-> IF st.rate > acc.bestDay.rate
                                      THEN [date |-> date, rate |-> st.rate]
                                      ELSE acc.bestDay,
                          worstDay |-> IF st.rate < acc.worstDay.rate
                                       THEN [date |-> date, rate |-> st.rate]
                                       ELSE acc.worstDay]
                    ELSE acc
         IN statsOver(hs, log, td, Tail(dates), nxt)

\* calculateStats lines 309-346
calculateStats(hs, log, td, dates) ==
    LET acc == statsOver(hs, log, td, dates,
                   [totalTasks |-> 0, totalCompleted |-> 0, daysWithData |-> 0,
                    bestDay |-> [date |-> NULL, rate |-> 0 - 1],
                    worstDay |-> [date |-> NULL, rate |-> 101]])
        overallRate == IF acc.totalTasks = 0 THEN 0
                       ELSE roundRate(acc.totalCompleted, acc.totalTasks)
    IN [totalTasks |-> acc.totalTasks,
        totalCompleted |-> acc.totalCompleted,
        overallRate |-> overallRate,
        avgRate |-> overallRate,
        bestDay |-> acc.bestDay,
        worstDay |-> IF acc.worstDay.date # NULL THEN acc.worstDay
                     ELSE [date |-> NULL, rate |-> 0],
        daysWithData |-> acc.daysWithData]

\* variant: every habit is a group of its own
groupKeyById(h) == h.id

\* renderHabitsBreakdown line 587: habit.groupId || `standalone_${habit.id}`
\* (group ids are negative and habit ids positive: the keys never collide)
groupKey(h) == IF h.groupId # NULL THEN h.groupId ELSE h.id

\* the keys of habitGroups, in the order in which forEach inserts them
RECURSIVE groupKeysOf(_, _)
groupKeysOf(hs, seen) ==
    IF hs = << >> THEN << >>
    ELSE IF groupKey(Head(hs)) \in seen THEN groupKeysOf(Tail(hs), seen)
         ELSE <<groupKey(Head(hs))>>
                  \o groupKeysOf(Tail(hs), seen \cup {groupKey(Head(hs))})

\* habitGroups[groupKey].habits
RECURSIVE membersOf(_, _)
membersOf(hs, k) ==
    IF hs = << >> THEN << >>
    ELSE IF groupKey(Head(hs)) = k THEN <<Head(hs)>> \o membersOf(Tail(hs), k)
         ELSE membersOf(Tail(hs), k)

\* renderHabitsBreakdown lines 583-600: Object.values(habitGroups)
habitGroupsOf(hs) ==
    LET ks == groupKeysOf(hs, {})
    IN [i \in DOMAIN ks |->
          LET ms == membersOf(hs, ks[i])
          IN [groupId |-> ms[1].groupId,
              name |-> ms[1].name,
              habits |-> ms,
              dayIndices |-> {ms[j].dayOfWeek : j \in DOMAIN ms}]]

\* Array.prototype.find: the first position of a non-empty set of positions
firstOf(I) == CHOOSE i \in I : \A j \in I : i <= j

\* variant: the group entry is looked at whenever the group has an id
fallbackAlways(found, g) == g # NULL

\* line 643: !histHabit && group.groupId
fallbackApplies(found, g) == ~found /\ g # NULL

\* renderHabitsBreakdown lines 626-651: what one scheduled date adds to
\* totalCompletedDays
completedDaysOn(group, scheduledHabit, log, td, date) ==
    IF isToday(date, td)
    THEN IF scheduledHabit.completed THEN 1 ELSE 0
    ELSE IF date \notin DOMAIN log THEN 0
    ELSE LET dayData == log[date]
             byId == {i \in DOMAIN dayData : dayData[i].id = scheduledHabit.id}
             byGroup == {i \in DOMAIN dayData :
                            dayData[i].groupId = group.groupId}
         IN (IF byId # {} /\ dayData[firstOf(byId)].completed THEN 1 ELSE 0)
            + (IF /\ fallbackApplies(byId # {}, group.groupId)
                  /\ byGroup # {}
                  /\ dayData[firstOf(byGroup)].completed
               THEN 1 ELSE 0)

\* variant: a date counts as scheduled only when it is today or has a record
RECURSIVE groupOverLogged(_, _, _, _, _)
groupOverLogged(group, log, td, dates, acc) ==
    IF dates = << >> THEN acc
    ELSE LET date == Head(dates)
             found == SelectSeqBy(group.habits, getDayIndexFromDate(date))
             nxt == IF found = << >> \/ (~isToday(date, td) /\ date \notin DOMAIN log)
                    THEN acc
                    ELSE [total |-> acc.total + 1,
                          completed |-> acc.completed
                              + completedDaysOn(group, Head(found), log, td, date)]
         IN groupOverLogged(group, log, td, Tail(dates), nxt)

\* renderHabitsBreakdown lines 610-652: dates.forEach for one group
RECURSIVE groupOver(_, _, _, _, _)
groupOver(group, log, td, dates, acc) ==
    IF dates = << >> THEN acc
    ELSE LET date == Head(dates)
             found == SelectSeqBy(group.habits, getDayIndexFromDate(date))
             nxt == IF found = << >> THEN acc
                    ELSE [total |-> acc.total + 1,
                          completed |-> acc.completed
                              + completedDaysOn(group, Head(found), log, td, date)]
         IN groupOver(group, log, td, Tail(dates), nxt)

\* renderHabitsBreakdown lines 606-671: the row of one group
groupStatsOf(group, log, td, dates) ==
    LET acc == groupOver(group, log, td, dates, [total |-> 0, completed |-> 0])
    IN [name |-> group.name,
        groupId |-> group.groupId,
        completedCount |-> acc.completed,
        totalCount |-> acc.total,
        rate |-> IF acc.total = 0 THEN 0
                 ELSE roundRate(acc.completed, acc.total),
        scheduledDays |-> SortedDays(group.dayIndices),
        isGrouped |-> Len(group.habits) > 1]

\* a row is put behind every row whose rate is not lower
RECURSIVE insertByRate(_, _)
insertByRate(rows, r) ==
    IF rows = << >> THEN <<r>>
    ELSE IF Head(rows).rate >= r.rate
         THEN <<Head(rows)>> \o insertByRate(Tail(rows), r)
         ELSE <<r>> \o rows

\* line 677: groupStats.sort((a, b) => b.rate - a.rate), a stable sort
RECURSIVE sortByRate(_, _)
sortByRate(rows, sorted) ==
    IF rows = << >> THEN sorted
    ELSE sortByRate(Tail(rows), insertByRate(sorted, Head(rows)))

\* renderHabitsBreakdown lines 565-677
groupStats(hs, log, td, dates) ==
    LET groups == habitGroupsOf(hs)
    IN sortByRate([i \in DOMAIN groups |->
                      groupStatsOf(groups[i], log, td, dates)], << >>)

\* render() (lines 718-725) for the dates of the selected period:
\* renderOverview (calculateStats), renderChart (getDateStats of every date)
\* and renderHabitsBreakdown
Render(dates) ==
    /\ pc = "stats"
    /\ view' = [rendered |-> TRUE,
                dates |-> dates,
                daily |-> [i \in DOMAIN dates |->
                              getDateStats(habits, history, now, dates[i])],
                stats |-> calculateStats(habits, history, now, dates),
                breakdown |-> groupStats(habits, history, now, dates)]
    /\ UNCHANGED <<now, pc, local, ids, db, loadedStats, second, outcome, again>>

\* ------------------------------------------------------- specifications
Ids == 1..MaxHabits

UserOp ==
    \/ \E days \in FormDaySets : AddHabits(days)
    \/ \E id \in Ids : ToggleHabit(id)
    \/ \E id \in Ids : UpdateHabit(id)
    \/ \E id \in Ids : DeleteHabit(id)

Rollover ==
    \/ CheckDailyResetCurrent
    \/ CheckDailyResetArchive
    \/ CheckDailyResetNoSchedule
    \/ HistorySaved
    \/ HabitsSaved
    \/ StatsSaved

\* a write of the rollover fails
RolloverFailure ==
    \/ HistorySaveFails
    \/ HabitsSaveFails
    \/ StatsSaveFails

\* the write of a habit operation fails
OperationFailure ==
    \/ \E days \in FormDaySets : \E k \in 0..1 : AddHabitsSaveFails(days, k)
    \/ \E id \in Ids : ToggleHabitSaveFails(id)
    \/ \E id \in Ids : UpdateHabitSaveFails(id)
    \/ \E id \in Ids : DeleteHabitSaveFails(id)

\* every persistence call succeeds
Next ==
    \/ Tick
    \/ LoadFromFirestore
    \/ Rollover
    \/ UserOp
    \/ ClosePage
    \/ OpenStatsPage

Spec == Init /\ [][Next]_vars

\* The writes of the rollover may fail; habits are created and checked off,
\* pages are loaded and closed, the clock advances.
NextFail ==
    \/ Tick
    \/ LoadFromFirestore
    \/ Rollover
    \/ RolloverFailure
    \/ \E days \in FormDaySets : AddHabits(days)
    \/ \E id \in Ids : ToggleHabit(id)
    \/ ClosePage

SpecFail == Init /\ [][NextFail]_vars

\* Two pages of one user: each loads, runs its rollover and is closed, in any
\* interleaving of their reads and writes.  Every persistence call succeeds.
\* While the second page is open, no habit is created or checked off: the
\* reads and writes that interleave are those of the two rollovers.
QuietAddHabits(days) == second.pc = "closed" /\ AddHabits(days)

QuietToggleHabit(id) == second.pc = "closed" /\ ToggleHabit(id)

NextTwo ==
    \/ Tick
    \/ LoadFromFirestore
    \/ Rollover
    \/ \E days \in FormDaySets : QuietAddHabits(days)
    \/ \E id \in Ids : QuietToggleHabit(id)
    \/ ClosePage
    \/ SecondPage

SpecTwo == Init /\ [][NextTwo]_vars

\* ------------------------------------------------ the habit store on one day
\* Habits are created, checked off, edited and deleted on the home page and
\* groups are deleted on the weekly view; the date does not change and every
\* persistence call succeeds.
StoreIds == 1..MaxStore

NextHabits ==
    \/ LoadFromFirestore
    \/ CheckDailyResetCurrent
    \/ \E days \in FormDaySets : AddHabitsWithin(days, MaxStore)
    \/ \E id \in StoreIds : ToggleHabit(id)
    \/ \E id \in StoreIds : ToggleHabitNotFound(id)
    \/ \E id \in StoreIds : UpdateHabit(id)
    \/ \E id \in StoreIds : DeleteHabit(id)
    \/ ClosePage
    \/ OpenWeeklyPage
    \/ \E id \in StoreIds : DeleteHabitGroup(id)

SpecHabits == Init /\ [][NextHabits]_vars

\* --------------------------------------- habit operations and their callers
\* Habits are created, checked off, edited and deleted on the home page; a
\* write may fail and a handler may be called with the id of a deleted
\* habit.  The date does not change.
NextOps ==
    \/ LoadFromFirestore
    \/ CheckDailyResetCurrent
    \/ \E days \in FormDaySets : AddHabitsCall(days)
    \/ \E id \in Ids : ToggleHabitCall(id)
    \/ \E id \in Ids : UpdateHabitCall(id)
    \/ \E id \in Ids : DeleteHabitCall(id)
    \/ OperationFailure
    \/ \E id \in Ids : UpdateHabitNotFound(id)
    \/ \E id \in Ids : DeleteHabitNotFound(id)
    \/ ClosePage

SpecOps == Init /\ [][NextOps]_vars

\* Habits are created; any write of a handler may fail, the first or the
\* second of addHabits included, and the page may be reloaded.
NextOpsFail ==
    \/ LoadFromFirestore
    \/ CheckDailyResetCurrent
    \/ \E days \in FormDaySets : AddHabitsCall(days)
    \/ OperationFailure
    \/ ClosePage

SpecOpsFail == Init /\ [][NextOpsFail]_vars

\* ------------------------------------------------- a rollover is retried
\* As SpecFail, with the user creating and checking off habits only on a
\* page that holds the stored last-active date: between a rollover whose
\* writes failed and its retry by a later session nothing but the clock
\* and the pages moves.
SettledAddHabits(days) == lastDate = dbStats.lastDate /\ AddHabits(days)

SettledToggleHabit(id) == lastDate = dbStats.lastDate /\ ToggleHabit(id)

NextRetry ==
    \/ Tick
    \/ LoadFromFirestore
    \/ Rollover
    \/ RolloverFailure
    \/ \E days \in FormDaySets : SettledAddHabits(days)
    \/ \E id \in Ids : SettledToggleHabit(id)
    \/ ClosePage

SpecRetry == Init /\ [][NextRetry]_vars

\* --------------------------------------------- the load may be run twice
\* As Spec without edits and deletions; the load may be started a second
\* time while the first run waits for its history write, and the two writes
\* complete in either order.  Habits are created and checked off while no
\* second run is under way.
FirstHistorySaved == again.pc = "idle" /\ HistorySaved

CalmAddHabits(days) == again.pc \in {"idle", "done"} /\ AddHabits(days)

CalmToggleHabit(id) == again.pc \in {"idle", "done"} /\ ToggleHabit(id)

NextAgain ==
    \/ Tick
    \/ LoadFromFirestore
    \/ CheckDailyResetCurrent
    \/ CheckDailyResetArchive
    \/ CheckDailyResetNoSchedule
    \/ FirstHistorySaved
    \/ HabitsSaved
    \/ StatsSaved
    \/ InitHabitDataAgain
    \/ HistorySavedDetached
    \/ AgainHistorySaved
    \/ AgainHabitsSaved
    \/ AgainStatsSaved
    \/ \E days \in FormDaySets : CalmAddHabits(days)
    \/ \E id \in Ids : CalmToggleHabit(id)
    \/ ClosePage

SpecAgain == Init /\ [][NextAgain]_vars

\* ------------------------------------------ pages with and without a user
\* A session is opened with the user signed in (habits are created and
\* checked off, the rollover runs) or without; the handlers are called on
\* either page.  Every write of a signed-in page succeeds.
NextAnon ==
    \/ Tick
    \/ LoadFromFirestore
    \/ Rollover
    \/ \E days \in FormDaySets : AddHabitsCall(days)
    \/ \E id \in Ids : ToggleHabitCall(id)
    \/ ClosePage
    \/ LoadFromFirestoreNoUser
    \/ \E days \in FormDaySets : AddHabitsNoUser(days)
    \/ \E id \in Ids : ToggleHabitNoUser(id)
    \/ \E id \in Ids : UpdateHabitNoUser(id)
    \/ \E id \in Ids : DeleteHabitNoUser(id)

SpecAnon == Init /\ [][NextAnon]_vars

\* ------------------------------------ the statistics page on a given account
\* The statistics page has loaded a habit store and a history log and
\* renders the periods the user selects.  Today is a day of the second week,
\* so that the longer periods hold a weekday twice.
StatsToday == DaysInWeek + MaxDay

\* the weekdays habits are scheduled on: yesterday's and today's
HabitDays == {getDayIndexFromDate(StatsToday - 1), getDayIndexFromDate(StatsToday)}

StoredHabit(i, c) ==
    [id |-> i, groupId |-> c[2], dayOfWeek |-> c[1], name |-> FormFields.name,
     time |-> FormFields.time, description |-> FormFields.description,
     completed |-> c[3]]

\* the instances of a group lie on distinct weekdays (addHabits creates one
\* per key of the day-config map)
DistinctGroupDays(hs) ==
    \A i, j \in DOMAIN hs :
        (i # j /\ hs[i].groupId # NULL /\ hs[i].groupId = hs[j].groupId)
            => hs[i].dayOfWeek # hs[j].dayOfWeek

\* habit stores of up to MaxHabits habits, ungrouped or of the group -1
StoreInputs ==
    {hs \in UNION {{[i \in 1..n |-> StoredHabit(i, f[i])] :
                      f \in [1..n -> HabitDays \X {NULL, 0 - 1} \X BOOLEAN]} :
                   n \in 0..MaxHabits} :
        DistinctGroupDays(hs)}

\* the dates that may have a record: yesterday, and the days one week
\* before yesterday and before today
HistoryDates ==
    {StatsToday - 1 - DaysInWeek, StatsToday - DaysInWeek, StatsToday - 1}

\* the record of a date as it was archived: every habit of the weekday
\* completed ("all"), the first one not completed ("mixed"), or every one
\* completed and archived under an id the store no longer holds ("churn")
RecordInput(hs, d, kind) ==
    LET sched == yesterdayHabitsOf(hs, d)
    IN [i \in DOMAIN sched |->
          [id |-> IF kind = "churn" THEN sched[i].id + MaxHabits
                  ELSE sched[i].id,
           groupId |-> sched[i].groupId,
           name |-> sched[i].name,
           completed |-> (kind # "mixed" \/ i # 1)]]

HistoryInputs(hs) ==
    {[d \in {e \in HistoryDates : f[e] # "absent"} |-> RecordInput(hs, d, f[d])] :
        f \in [HistoryDates -> {"absent", "all", "mixed", "churn"}]}

InitStats ==
    /\ now = StatsToday
    /\ pc = "stats"
    /\ habits \in StoreInputs
    /\ history \in HistoryInputs(habits)
    /\ streak = 0
    /\ bestStreak = 0
    /\ lastDate = NULL
    /\ today = NULL
    /\ inflight = NoCall
    /\ nextId = Len(habits)
    /\ nextGroup = 0
    /\ dbHabits = [i \in DOMAIN habits |-> habits[i]]
    /\ dbHistory = history
    /\ dbStats = [streak |-> 0, bestStreak |-> 0, lastDate |-> now]
    /\ loadedStats = NoStats
    /\ second = NoPage
    /\ view = NoView
    /\ outcome = NoOutcome
    /\ again = NoAgain

\* getLastNDays lines 112-120
getLastNDays(td, days) == [i \in 1..days |-> td - days + i]

\* the lists rendered: no date, today, the nine days up to today (two
\* weekdays fall twice in them), and the eight days before today
DateLists ==
    {getLastNDays(StatsToday, n) : n \in {0, 1, DaysInWeek + 2}}
        \cup {getLastNDays(StatsToday - 1, DaysInWeek + 1)}

NextStats == \E dates \in DateLists : Render(dates)

SpecStats == InitStats /\ [][NextStats]_vars


\* ------------------------------------------------------------ properties
\* Written in terms of sets of positions of the array, independently of the
\* operators the actions are built from.

\* positions of the habits scheduled on the weekday of date d
ScheduledOn(hs, d) == {i \in DOMAIN hs : hs[i].dayOfWeek = d % DaysInWeek}

CompletedAll(hs, I) == \A i \in I : hs[i].completed

\* the step of a rollover in which the in-memory last-active date advances
\* (the stale -> current transition)
StaleToCurrent == lastDate # NULL /\ lastDate' # NULL /\ lastDate' # lastDate

\* the rollover check is about to run on a stale last-active date
StaleCheck == pc = "check" /\ lastDate # NULL /\ lastDate # now

\* the {id, groupId, name, completed} entries of the habits at positions I
EntriesOf(hs, I) ==
    {[id |-> hs[i].id, groupId |-> hs[i].groupId, name |-> hs[i].name,
      completed |-> hs[i].completed] : i \in I}

\* a record holds exactly one entry per habit at positions I
IsSnapshot(rec, hs, I) ==
    /\ Len(rec) = Cardinality(I)
    /\ Range(rec) = EntriesOf(hs, I)

\* C1: when the rollover advances the last-active date and habits were
\* scheduled on lastDate's weekday, the streak becomes streak + 1 if all of
\* them are completed and 0 otherwise; other habits' flags play no part.
C1_AllOrNothingStreak ==
    [][(StaleToCurrent /\ ScheduledOn(habits, lastDate) # {}) =>
          streak' = (IF CompletedAll(habits, ScheduledOn(habits, lastDate))
                     THEN streak + 1 ELSE 0)]_vars

\* a rollover incremented the streak after an earlier one archived a day
\* with an incomplete habit, while a habit of another weekday is in the store
C1_Witness ==
    /\ pc = "awaitHabits"
    /\ streak = 1
    /\ \E d \in DOMAIN history : \E i \in DOMAIN history[d] : ~history[d][i].completed
    /\ \E i \in DOMAIN habits : habits[i].dayOfWeek # dbStats.lastDate % DaysInWeek

\* C2: bestStreak >= streak in memory and in the stats document, and neither
\* a rollover nor any write of the stats document lowers bestStreak.
C2_BestStreakMonotone ==
    /\ [](bestStreak >= streak /\ dbStats.bestStreak >= dbStats.streak)
    /\ [][/\ dbStats'.bestStreak >= dbStats.bestStreak
          /\ StaleToCurrent => bestStreak' >= bestStreak]_vars

\* after a rollover that reset the streak, the best streak is still 1
C2_Witness ==
    /\ pc = "loaded"
    /\ dbStats.lastDate = now
    /\ dbStats.streak = 0
    /\ dbStats.bestStreak = 1

\* C3: the record written at key lastDate, in memory and in Firestore, holds
\* exactly one {id, groupId, name, completed} entry per habit scheduled on
\* lastDate's weekday, with the flags as they were before the reset.
C3_RecordIsSnapshot ==
    [][(StaleToCurrent /\ ScheduledOn(habits, lastDate) # {}) =>
          /\ lastDate \in DOMAIN history' /\ lastDate \in DOMAIN dbHistory'
          /\ IsSnapshot(history'[lastDate], habits, ScheduledOn(habits, lastDate))
          /\ IsSnapshot(dbHistory'[lastDate], habits, ScheduledOn(habits, lastDate))]_vars

\* a record with one completed entry was written while the store holds a
\* habit of another weekday, and the flags have been reset since
C3_Witness ==
    /\ pc = "awaitHabits"
    /\ Len(habits) >= 2
    /\ \E d \in DOMAIN dbHistory :
          /\ Len(dbHistory[d]) = 1
          /\ dbHistory[d][1].completed
          /\ \E i \in DOMAIN habits : habits[i].id = dbHistory[d][1].id
                                       /\ ~habits[i].completed

\* C4: a rollover for a date on whose weekday nothing is scheduled writes no
\* record, keeps streak and bestStreak, and still advances lastDate to today.
C4_EmptyScheduleKeepsStreak ==
    [][(StaleCheck /\ ScheduledOn(habits, lastDate) = {}) =>
          /\ history' = history
          /\ dbHistory' = dbHistory
          /\ streak' = streak
          /\ bestStreak' = bestStreak
          /\ lastDate' = now]_vars

\* a streak of 1 survived a rollover over a day without scheduled habits
C4_Witness ==
    /\ pc = "awaitHabits"
    /\ streak = 1
    /\ dbStats.lastDate # NULL
    /\ dbStats.lastDate # now
    /\ dbStats.lastDate \notin DOMAIN history

\* C5: after the stale -> current step every habit of the store has
\* completed = false, whatever its weekday.
C5_GlobalReset ==
    [][StaleToCurrent => \A i \in DOMAIN habits' : ~habits'[i].completed]_vars

\* the rollover has reset the flags in memory while Firestore still shows a
\* completed habit that is not scheduled on the archived weekday
C5_Witness ==
    /\ pc = "awaitHabits"
    /\ dbStats.lastDate # NULL
    /\ \E k \in DOMAIN dbHabits :
          /\ dbHabits[k].completed
          /\ dbHabits[k].dayOfWeek # dbStats.lastDate % DaysInWeek
    /\ \A i \in DOMAIN habits : ~habits[i].completed

\* C6: a page that finished its load on the day its rollover check ran
\* leaves today's date in the stats document, and a rollover check that runs
\* while the stats document holds today's date finds lastDate = today,
\* changes nothing and writes nothing.
C6_RolloverIdempotent ==
    /\ []((pc = "loaded" /\ today = now /\ lastDate # NULL) => dbStats.lastDate = now)
    /\ [][(pc = "check" /\ dbStats.lastDate = now) =>
             /\ lastDate = now
             /\ pc' = "loaded"
             /\ UNCHANGED <<habits, history, streak, bestStreak, lastDate, db>>]_vars

\* a second run on the day of a rollover that raised the streak
C6_Witness ==
    /\ pc = "check"
    /\ lastDate = now
    /\ streak = 1
    /\ lastDate - 1 \in DOMAIN history

\* C7: once the load of a page has finished, the last-active date is seeded:
\* it is non-null in memory and in the stats document.
C7_FirstRunSeedsLastDate ==
    (pc = "loaded") => (lastDate # NULL /\ dbStats.lastDate # NULL)

\* C8: a history record, once written, is never changed or removed, in
\* Firestore or in the memory of a page, and the rollover never writes a
\* date key that already has a record.
C8_HistoryWrittenOnce ==
    [][/\ \A d \in DOMAIN dbHistory :
             d \in DOMAIN dbHistory' /\ dbHistory'[d] = dbHistory[d]
       /\ pc' # "closed" =>
             \A d \in DOMAIN history :
                 d \in DOMAIN history' /\ history'[d] = history[d]
       /\ dbHistory' # dbHistory => inflight.date \notin DOMAIN dbHistory]_vars

\* two records are stored and habits have been deleted since
C8_Witness ==
    /\ pc = "loaded"
    /\ Cardinality(DOMAIN dbHistory) = 2
    /\ habits = << >>

RECURSIVE TrailingComplete(_, _)
\* number of records, from date d downwards, whose entries are all
\* completed, up to the first record with an incomplete entry
TrailingComplete(log, d) ==
    IF d < 1 THEN 0
    ELSE IF d \notin DOMAIN log THEN TrailingComplete(log, d - 1)
    ELSE IF \A i \in DOMAIN log[d] : log[d][i].completed
         THEN 1 + TrailingComplete(log, d - 1)
         ELSE 0

\* C9: outside a running rollover, the streak equals the number of most
\* recent records whose entries are all completed, in memory and in Firestore.
C9_StreakCountsRecords ==
    (pc \in {"closed", "check", "loaded", "stats"}) =>
        /\ streak = TrailingComplete(history, MaxDay + 1)
        /\ dbStats.streak = TrailingComplete(dbHistory, MaxDay + 1)

\* streak 1 over two records: the older one has an incomplete entry
C9_Witness ==
    /\ pc = "loaded"
    /\ streak = 1
    /\ Cardinality(DOMAIN history) = 2
    /\ \E d \in DOMAIN history : \E i \in DOMAIN history[d] : ~history[d][i].completed

\* C10: whatever writes of a rollover fail, the streak a page holds is at
\* most one above the stored streak, a write of the stats document raises the
\* stored streak by at most one, and it changes the stored streak only
\* together with the stored last-active date.
C10_NoDoubleIncrement ==
    /\ [](streak <= dbStats.streak + 1)
    /\ [][/\ dbStats'.streak <= dbStats.streak + 1
          /\ dbStats'.streak # dbStats.streak =>
                dbStats'.lastDate # dbStats.lastDate]_vars

\* a retried rollover is suspended at its history write: the record of the
\* date is already stored by an attempt that failed later
C10_Witness ==
    /\ pc = "awaitHistory"
    /\ inflight.date \in DOMAIN dbHistory
    /\ \A i \in DOMAIN inflight.record : inflight.record[i].completed
    /\ streak = dbStats.streak

\* a page has run its rollover on a stale last-active date it had read
RanRollover(p, doc, td) ==
    /\ p \in {"awaitHistory", "awaitHabits", "awaitStats", "loaded"}
    /\ doc.lastDate # NULL
    /\ td # NULL
    /\ doc.lastDate # td

ScheduledDates(J) ==
    {i \in DOMAIN view.dates :
        \E j \in J : habits[j].dayOfWeek = view.dates[i] % DaysInWeek}

Members(g) == {j \in DOMAIN habits : habits[j].groupId = g}

GroupIds == {habits[j].groupId : j \in DOMAIN habits} \ {NULL}

RowsOf(g) == {r \in DOMAIN view.breakdown : view.breakdown[r].groupId = g}

\* C12: the breakdown has exactly one row per group and one per ungrouped
\* habit, and a row's totalCount is the number of rendered dates whose
\* weekday is the dayOfWeek of one of its instances.
C12_OneRowPerGroup ==
    view.rendered =>
        /\ Len(view.breakdown)
              = Cardinality(GroupIds) + Cardinality(Members(NULL))
        /\ \A g \in GroupIds :
              /\ Cardinality(RowsOf(g)) = 1
              /\ \A r \in RowsOf(g) :
                    view.breakdown[r].totalCount
                        = Cardinality(ScheduledDates(Members(g)))
        /\ \A n \in {view.breakdown[r].totalCount : r \in RowsOf(NULL)}
                    \cup {Cardinality(ScheduledDates({j})) : j \in Members(NULL)} :
              Cardinality({r \in RowsOf(NULL) : view.breakdown[r].totalCount = n})
                  = Cardinality({j \in Members(NULL) :
                                    Cardinality(ScheduledDates({j})) = n})

\* a group of two instances has one row that counts four scheduled dates
C12_Witness ==
    /\ view.rendered
    /\ \E g \in GroupIds :
          /\ Cardinality(Members(g)) = 2
          /\ \E r \in RowsOf(g) : /\ view.breakdown[r].totalCount = 4
                                  /\ view.breakdown[r].isGrouped

\* the instance at position j of the store (of group g, or ungrouped when g
\* is null) counts as completed on date d
DoneOn(j, g, d) ==
    IF d = now THEN habits[j].completed
    ELSE /\ d \in DOMAIN history
         /\ LET rec == history[d]
                byId == {k \in DOMAIN rec : rec[k].id = habits[j].id}
                byGroup == {k \in DOMAIN rec : g # NULL /\ rec[k].groupId = g}
            IN IF byId # {} THEN rec[firstOf(byId)].completed
               ELSE byGroup # {} /\ rec[firstOf(byGroup)].completed

CompletedDates(J, g) ==
    {i \in ScheduledDates(J) :
        \E j \in J : /\ habits[j].dayOfWeek = view.dates[i] % DaysInWeek
                     /\ DoneOn(j, g, view.dates[i])}

\* C13: a row's completedCount is the number of rendered dates on which its
\* scheduled instance is completed: by the live flag today, otherwise by the
\* record's entry with the instance's id or, when there is none, by the
\* entry with the group's id; a row completed on all its dates has rate 100.
C13_CompletedCount ==
    view.rendered =>
        /\ \A g \in GroupIds : \A r \in RowsOf(g) :
              view.breakdown[r].completedCount
                  = Cardinality(CompletedDates(Members(g), g))
        /\ \A c \in {<<view.breakdown[r].totalCount,
                        view.breakdown[r].completedCount>> : r \in RowsOf(NULL)}
                    \cup {<<Cardinality(ScheduledDates({j})),
                            Cardinality(CompletedDates({j}, NULL))>> :
                             j \in Members(NULL)} :
              Cardinality({r \in RowsOf(NULL) :
                              /\ view.breakdown[r].totalCount = c[1]
                              /\ view.breakdown[r].completedCount = c[2]})
                  = Cardinality({j \in Members(NULL) :
                                    /\ Cardinality(ScheduledDates({j})) = c[1]
                                    /\ Cardinality(CompletedDates({j}, NULL)) = c[2]})
        /\ \A r \in DOMAIN view.breakdown :
              (/\ view.breakdown[r].totalCount > 0
               /\ view.breakdown[r].completedCount = view.breakdown[r].totalCount)
                  => view.breakdown[r].rate = 100

\* a group is completed on its four dates: today by the live flag, on one
\* date by an entry that matches the group's id only
C13_Witness ==
    /\ view.rendered
    /\ \E g \in GroupIds : \E r \in RowsOf(g) :
          /\ view.breakdown[r].totalCount = 4
          /\ view.breakdown[r].completedCount = 4
          /\ view.breakdown[r].rate = 100
          /\ \E d \in DOMAIN history : \E k \in DOMAIN history[d] :
                /\ history[d][k].groupId = g
                /\ \A j \in Members(g) : habits[j].id # history[d][k].id

\* C14: the day's figures of today count the habits of today's weekday only;
\* those of another date are the record's, or zero without a record.
C14_DailyStatsOfWeekday ==
    view.rendered =>
        \A i \in DOMAIN view.dates :
            LET d == view.dates[i]
                I == ScheduledOn(habits, d)
            IN IF d = now
               THEN /\ view.daily[i].total = Cardinality(I)
                    /\ view.daily[i].completed
                          = Cardinality({j \in I : habits[j].completed})
               ELSE IF d \in DOMAIN history
                    THEN /\ view.daily[i].total = Len(history[d])
                         /\ view.daily[i].completed = countCompleted(history[d])
                    ELSE view.daily[i] = [total |-> 0, completed |-> 0, rate |-> 0]

\* C15: every rate of a day and of a breakdown row is an integer from 0 to
\* 100, completed never exceeds total, and the rate is 0 when the total is 0.
C15_RateBounds ==
    view.rendered =>
        /\ \A i \in DOMAIN view.daily :
              /\ view.daily[i].rate \in 0..100
              /\ view.daily[i].completed <= view.daily[i].total
              /\ view.daily[i].total = 0 => view.daily[i].rate = 0
        /\ \A r \in DOMAIN view.breakdown :
              /\ view.breakdown[r].rate \in 0..100
              /\ view.breakdown[r].completedCount <= view.breakdown[r].totalCount
              /\ view.breakdown[r].totalCount = 0 => view.breakdown[r].rate = 0

\* a day and a row are half completed
C15_Witness ==
    /\ view.rendered
    /\ \E i \in DOMAIN view.daily : view.daily[i].rate = 50
    /\ \E r \in DOMAIN view.breakdown :
          /\ view.breakdown[r].rate = 50
          /\ view.breakdown[r].totalCount = 4

\* C16: over a list in which no date has data, the statistics of the range
\* are all zero, with best and worst day {date: null, rate: 0}.
C16_EmptyRangeAllZero ==
    (view.rendered /\ \A i \in DOMAIN view.daily : view.daily[i].total = 0) =>
        view.stats = [totalTasks |-> 0, totalCompleted |-> 0, overallRate |-> 0,
                      avgRate |-> 0, daysWithData |-> 0,
                      bestDay |-> [date |-> NULL, rate |-> 0],
                      worstDay |-> [date |-> NULL, rate |-> 0]]

\* ------------------------------------------- properties of the habit store
\* the habits of a store as a set
StoreOf(hs) == {hs[i] : i \in DOMAIN hs}

\* C17: addHabits appends one habit per key of the day-config map, not
\* completed, its dayOfWeek the key; with several keys the new habits share
\* one group id that no habit of the store and no stored document carries,
\* with one key the new habit has no group id.
C17_CreateHabits ==
    [][\A days \in FormDaySets :
          AddHabitsWithin(days, MaxStore) =>
             LET n == Len(habits)
                 New == (n + 1)..Len(habits')
             IN /\ Len(habits') = n + Cardinality(days)
                /\ \A i \in 1..n : habits'[i] = habits[i]
                /\ {habits'[i].dayOfWeek : i \in New} = days
                /\ \A i \in New : ~habits'[i].completed
                /\ Cardinality(days) > 1 =>
                      \E g \in {habits'[i].groupId : i \in New} :
                          /\ g # NULL
                          /\ \A i \in New : habits'[i].groupId = g
                          /\ \A i \in 1..n : habits[i].groupId # g
                          /\ \A k \in DOMAIN dbHabits : dbHabits[k].groupId # g
                /\ Cardinality(days) = 1 =>
                      \A i \in New : habits'[i].groupId = NULL]_vars

\* a second group was created next to a first one
C17_Witness ==
    /\ Len(habits) = 4
    /\ habits[1].groupId # NULL
    /\ habits[2].groupId = habits[1].groupId
    /\ habits[3].groupId # NULL /\ habits[3].groupId # habits[1].groupId
    /\ habits[4].groupId = habits[3].groupId
    /\ habits[3].dayOfWeek # habits[4].dayOfWeek
    /\ \A i \in DOMAIN habits : ~habits[i].completed

\* C18: toggleHabit flips the completed flag of the habit with the id and
\* changes no other habit, no other field, no history record and nothing of
\* the streak state; for an id no habit has, nothing changes and nothing is
\* written.
C18_ToggleFrame ==
    [][\A id \in StoreIds :
          /\ ToggleHabit(id) =>
                /\ Len(habits') = Len(habits)
                /\ \A i \in DOMAIN habits :
                      IF habits[i].id = id
                      THEN habits'[i] = [habits[i] EXCEPT
                                            !.completed = ~habits[i].completed]
                      ELSE habits'[i] = habits[i]
                /\ UNCHANGED <<history, streak, bestStreak, lastDate,
                               dbHistory, dbStats>>
          /\ ToggleHabitNotFound(id) =>
                UNCHANGED <<habits, history, streak, bestStreak, lastDate, db>>]_vars

\* a habit was checked off and unchecked again next to a checked sibling,
\* and a deleted habit's id is left to be toggled in vain
C18_Witness ==
    /\ pc = "loaded"
    /\ Len(habits) = 2
    /\ nextId = 3
    /\ habits[1].groupId # NULL /\ habits[1].groupId = habits[2].groupId
    /\ habits[1].completed /\ ~habits[2].completed
    /\ dbHabits[habits[1].id].completed

\* C19: updateHabit sets name, time and description of the habit with the id
\* and of no other habit, siblings of its group included; the habit keeps
\* its id, groupId, dayOfWeek and completed flag.
C19_UpdateFrame ==
    [][\A id \in StoreIds :
          UpdateHabit(id) =>
             /\ Len(habits') = Len(habits)
             /\ \A i \in DOMAIN habits :
                   IF habits[i].id = id
                   THEN /\ habits'[i].name = EditFields.name
                        /\ habits'[i].time = EditFields.time
                        /\ habits'[i].description = EditFields.description
                        /\ habits'[i].id = habits[i].id
                        /\ habits'[i].groupId = habits[i].groupId
                        /\ habits'[i].dayOfWeek = habits[i].dayOfWeek
                        /\ habits'[i].completed = habits[i].completed
                   ELSE habits'[i] = habits[i]]_vars

\* a completed habit of a group was edited; its sibling has the old fields
C19_Witness ==
    /\ pc = "loaded"
    /\ \E i, j \in DOMAIN habits :
          /\ habits[i].groupId # NULL
          /\ habits[i].groupId = habits[j].groupId
          /\ habits[i].name = EditFields.name
          /\ habits[i].completed
          /\ habits[j].name = FormFields.name
          /\ habits[j].time = FormFields.time

\* C20: deleteHabit removes the habit with the id and leaves every other
\* habit, its siblings included; deleteHabitGroup removes the habits that
\* carry the group id of the habit and leaves every habit with another or
\* no group id.  The stored documents follow.
C20_DeleteExactly ==
    [][\A id \in StoreIds :
          /\ DeleteHabit(id) =>
                /\ Len(habits') = Len(habits) - 1
                /\ StoreOf(habits') = {h \in StoreOf(habits) : h.id # id}
                /\ DOMAIN dbHabits' = DOMAIN dbHabits \ {id}
          /\ DeleteHabitGroup(id) =>
                \E g \in {h.groupId : h \in {x \in StoreOf(habits) : x.id = id}} :
                    /\ g # NULL
                    /\ StoreOf(habits') = {h \in StoreOf(habits) : h.groupId # g}
                    /\ DOMAIN dbHabits'
                          = {k \in DOMAIN dbHabits : dbHabits[k].groupId # g}]_vars

\* of two groups one was deleted whole on the weekly view and one instance
\* of the other was deleted alone: its sibling is the habit that stays
C20_Witness ==
    /\ pc = "weekly"
    /\ nextId = 4
    /\ nextGroup = 2
    /\ Len(habits) = 1
    /\ habits[1].groupId # NULL
    /\ DOMAIN dbHabits = {habits[1].id}

\* ------------------------------------ properties of failing operations
\* C21: when the write of a create, toggle, update or delete fails, the
\* habits in memory are those the handler had set before the write: the new
\* habits appended, the flag flipped, the fields assigned, the habit removed.
C21_NoRollback ==
    [][/\ \A days \in FormDaySets : \A k \in 0..1 :
             AddHabitsSaveFails(days, k) =>
                /\ Len(habits') = Len(habits) + Cardinality(days)
                /\ \A i \in DOMAIN habits : habits'[i] = habits[i]
                /\ {habits'[i].dayOfWeek : i \in (Len(habits) + 1)..Len(habits')}
                      = days
       /\ \A id \in Ids :
             /\ ToggleHabitSaveFails(id) =>
                   StoreOf(habits') =
                      {IF h.id = id THEN [h EXCEPT !.completed = ~h.completed]
                       ELSE h : h \in StoreOf(habits)}
             /\ UpdateHabitSaveFails(id) =>
                   StoreOf(habits') =
                      {IF h.id = id
                       THEN [h EXCEPT !.name = EditFields.name,
                                      !.time = EditFields.time,
                                      !.description = EditFields.description]
                       ELSE h : h \in StoreOf(habits)}
             /\ DeleteHabitSaveFails(id) =>
                   StoreOf(habits') = {h \in StoreOf(habits) : h.id # id}]_vars

\* the write of a toggle was rejected: the habit is checked in memory and
\* unchecked in its stored document
C21_Witness ==
    /\ pc = "loaded"
    /\ outcome.op = "toggle"
    /\ outcome.result = "rejected"
    /\ \E i \in DOMAIN habits :
          /\ habits[i].completed
          /\ habits[i].id \in DOMAIN dbHabits
          /\ ~dbHabits[habits[i].id].completed

\* C22: on a page without a signed-in user no handler changes the habits,
\* the history, the streak state or a stored document, and none calls the
\* database layer.
C22_NoUserNoMutation ==
    [][pc = "anonymous" /\ pc' = "anonymous" =>
          /\ UNCHANGED <<habits, history, streak, bestStreak, lastDate, db>>
          /\ outcome'.calls = 0]_vars

\* C23: when addHabits has created the habits of several days, with every
\* write succeeding or one of them failing, the habits in memory and the
\* stored documents each hold all of the new siblings or none of them.
C23_SiblingsAtomic ==
    [][\A days \in FormDaySets : \A k \in 0..1 :
          (AddHabitsCall(days) \/ AddHabitsSaveFails(days, k))
             /\ Cardinality(days) > 1 =>
             LET New == {habits'[i].id : i \in (Len(habits) + 1)..Len(habits')}
                 InMemory == {habits'[i].id : i \in DOMAIN habits'}
             IN /\ Cardinality(New) = Cardinality(days)
                /\ New \subseteq InMemory
                /\ \/ New \subseteq DOMAIN dbHabits'
                   \/ New \cap DOMAIN dbHabits' = {}]_vars

\* the streak an uninterrupted rollover stores for a date whose record is rec
StreakOfRecord(rec, s) ==
    IF \A i \in DOMAIN rec : rec[i].completed THEN s + 1 ELSE 0

\* C24: a rollover that retries one whose writes failed ends as the first
\* attempt would have ended: the record an earlier attempt stored for the
\* date is stored again unchanged, and the stats document written at the
\* end holds the streak and best streak that follow from that record and
\* the stored streak, with every stored flag reset.
C24_RetryConverges ==
    [][/\ HistorySaved /\ inflight.date \in DOMAIN dbHistory =>
             dbHistory'[inflight.date] = dbHistory[inflight.date]
       /\ StatsSaved /\ dbStats.lastDate \in DOMAIN dbHistory =>
             LET s == StreakOfRecord(dbHistory[dbStats.lastDate], dbStats.streak)
             IN /\ dbStats'.streak = s
                /\ dbStats'.bestStreak
                      = IF s > dbStats.bestStreak THEN s ELSE dbStats.bestStreak
                /\ \A k \in DOMAIN dbHabits : ~dbHabits[k].completed]_vars

\* C25: updateHabit or deleteHabit called with an id no habit has leaves
\* the habits and the stored documents as they are, and its caller sees a
\* failure: the call does not settle as a successful update or delete does.
C25_NotFoundSurfaces ==
    [][\A id \in Ids :
          (UpdateHabitNotFound(id) \/ DeleteHabitNotFound(id)) =>
             /\ UNCHANGED <<habits, db>>
             /\ outcome'.result # settled(outcome'.op, TRUE, TRUE)]_vars

\* ------------------------------------------- the rollover and the habits
\* a habit without its completed flag
Unflagged(h) == [h EXCEPT !.completed = FALSE]

\* C26: no step of a rollover, from the check to its last write, adds or
\* removes a habit or changes a habit's id, groupId, dayOfWeek, name, time
\* or description, in memory or in the stored documents.
C26_RolloverKeepsHabits ==
    [][(pc \in {"check", "awaitHistory", "awaitHabits", "awaitStats"}) =>
          /\ Len(habits') = Len(habits)
          /\ \A i \in DOMAIN habits : Unflagged(habits'[i]) = Unflagged(habits[i])
          /\ \A k \in DOMAIN dbHabits \cap DOMAIN dbHabits' :
                Unflagged(dbHabits'[k]) = Unflagged(dbHabits[k])
          /\ DOMAIN dbHabits' = DOMAIN dbHabits]_vars

\* a rollover has archived a completed habit and reset it: an edited habit
\* and its sibling are still there
C26_Witness ==
    /\ pc = "loaded"
    /\ dbStats.lastDate = now
    /\ \E d \in DOMAIN dbHistory : \E i \in DOMAIN dbHistory[d] :
          dbHistory[d][i].completed
    /\ Len(habits) = 2
    /\ habits[1].groupId # NULL /\ habits[2].groupId = habits[1].groupId
    /\ habits[1].name = EditFields.name
    /\ ~habits[1].completed /\ ~habits[2].completed
    /\ DOMAIN dbHabits = {habits[1].id, habits[2].id}

\* C27: when the load is run a second time while the first run waits for
\* its history write, the record the second run writes for lastDate has the
\* flags from before any reset, and the streak changes at most once for the
\* day boundary: only from the value the session had loaded.
C27_SecondRunSameSession ==
    /\ [](again.pc = "awaitHistory" =>
             again.inflight.record = yesterdayRecordOf(again.first))
    /\ [][again.pc # "idle" /\ streak' # streak =>
             streak = loadedStats.streak]_vars

\* the stored last-active date lies more than one day back
Gap == dbStats.lastDate # NULL /\ now > dbStats.lastDate + 1

\* C28: while the stored last-active date lies more than one day before
\* today, a record is written for lastDate only, in memory and in storage,
\* and the rollover changes the streak in one step only, from the flags of
\* the habits scheduled on lastDate's weekday: the dates in between get no
\* record and leave the streak alone.
C28_GapRollover ==
    [][(Gap /\ pc \in {"check", "awaitHistory", "awaitHabits", "awaitStats"}) =>
          /\ \A d \in DOMAIN dbHistory' \ DOMAIN dbHistory : d = dbStats.lastDate
          /\ \A d \in DOMAIN history' \ DOMAIN history : d = dbStats.lastDate
          /\ streak' # streak =>
                /\ pc = "awaitHistory"
                /\ ScheduledOn(habits, dbStats.lastDate) # {}
                /\ streak' =
                      (IF CompletedAll(habits, ScheduledOn(habits, dbStats.lastDate))
                       THEN streak + 1 ELSE 0)]_vars

\* in the middle of a rollover two days after the last-active date: the
\* record of day 1 is stored and the streak is raised from its flags, the
\* day in between has no record though a habit is scheduled on its weekday
C28_Witness ==
    /\ pc = "awaitHabits"
    /\ now = 3
    /\ dbStats.lastDate = 1
    /\ DOMAIN dbHistory = {1}
    /\ dbStats.streak = 0
    /\ streak = 1
    /\ \E i \in DOMAIN habits : habits[i].dayOfWeek = 2

\* ------------------------------------------ ids and weekdays of a group
\* Array.prototype.sort((a, b) => a - b) on the weekdays: ascending, equal
\* elements kept
RECURSIVE sortAscending(_)
sortAscending(ds) ==
    IF ds = << >> THEN << >>
    ELSE LET rest == sortAscending(Tail(ds))
             d == Head(ds)
         IN SelectSeq(rest, LAMBDA x : x <= d) \o <<d>>
            \o SelectSeq(rest, LAMBDA x : x > d)

\* getGroupDays lines 161-166: filter by groupId, map to dayOfWeek, sort
getGroupDays(hs, g) ==
    LET members == SelectSeq(hs, LAMBDA h : h.groupId = g)
    IN sortAscending([i \in DOMAIN members |-> members[i].dayOfWeek])

\* habits are created, checked off, edited and deleted one by one or as a
\* group from the weekly view, the day rolls over, pages are loaded and
\* closed; every persistence call succeeds
NextAll ==
    \/ Tick
    \/ LoadFromFirestore
    \/ Rollover
    \/ UserOp
    \/ ClosePage
    \/ OpenWeeklyPage
    \/ \E id \in Ids : DeleteHabitGroup(id)

SpecAll == Init /\ [][NextAll]_vars

StrictlyAscending(ds) == \A i, j \in DOMAIN ds : i < j => ds[i] < ds[j]

\* C29: in every state reached by creating, toggling, updating and deleting
\* habits, deleting groups and rolling the day over, no two habits share an
\* id, no two habits of the same non-null group share a weekday, and
\* getGroupDays of every group is a list of distinct weekdays in ascending
\* order.
C29_UniqueIdsAndGroupDays ==
    /\ \A i, j \in DOMAIN habits : habits[i].id = habits[j].id => i = j
    /\ \A i, j \in DOMAIN habits :
          (habits[i].groupId # NULL /\ habits[i].groupId = habits[j].groupId
             /\ habits[i].dayOfWeek = habits[j].dayOfWeek) => i = j
    /\ \A i \in DOMAIN habits :
          habits[i].groupId # NULL =>
             LET ds == getGroupDays(habits, habits[i].groupId)
             IN /\ StrictlyAscending(ds)
                /\ {ds[k] : k \in DOMAIN ds}
                     = {habits[j].dayOfWeek :
                          j \in {m \in DOMAIN habits :
                                   habits[m].groupId = habits[i].groupId}}

\* a group of two habits after a rollover that archived a day, one of them
\* checked off since
C29_Witness ==
    /\ pc = "loaded"
    /\ DOMAIN history # {}
    /\ Len(habits) = 2
    /\ habits[1].groupId # NULL
    /\ habits[1].groupId = habits[2].groupId
    /\ habits[2].completed
    /\ Len(getGroupDays(habits, habits[1].groupId)) = 2

\* ------------------------------ the breakdown and dates without a record
\* the rendered dates scheduled for the instances J (of group g, or one
\* ungrouped habit when g is null) that are not today and have no record,
\* or a record without an entry of an instance's id or of the group's id
Unbacked(J, g) ==
    {i \in ScheduledDates(J) :
        LET d == view.dates[i]
        IN /\ d # now
           /\ \/ d \notin DOMAIN history
              \/ \A k \in DOMAIN history[d] :
                    /\ \A j \in J : history[d][k].id # habits[j].id
                    /\ g = NULL \/ history[d][k].groupId # g}

\* the rendered dates that the figures of the range count: today when its
\* day's figure has a task, another date when its record has an entry
DatesWithData ==
    {i \in DOMAIN view.dates :
        LET d == view.dates[i]
        IN IF d = now THEN view.daily[i].total > 0
           ELSE d \in DOMAIN history /\ Len(history[d]) > 0}

RECURSIVE TasksOf(_)
TasksOf(I) ==
    IF I = {} THEN 0
    ELSE LET i == CHOOSE x \in I : TRUE
             d == view.dates[i]
         IN (IF d = now THEN view.daily[i].total ELSE Len(history[d]))
            + TasksOf(I \ {i})

\* C30: a row's totalCount is the number of rendered dates on a weekday of
\* its instances whatever the History Log holds: a past date without a
\* record, or whose record has no entry for the group, is counted in
\* totalCount and adds nothing to completedCount, while the figures of the
\* range leave out every past date without a record (nothing is added to
\* totalTasks or daysWithData).
C30_BreakdownCountsUnrecordedDates ==
    view.rendered =>
        /\ \A g \in GroupIds : \A r \in RowsOf(g) :
              /\ view.breakdown[r].totalCount
                    = Cardinality(ScheduledDates(Members(g)))
              /\ view.breakdown[r].completedCount
                    <= Cardinality(ScheduledDates(Members(g)))
                         - Cardinality(Unbacked(Members(g), g))
        /\ \A j \in Members(NULL) : \E r \in RowsOf(NULL) :
              /\ view.breakdown[r].totalCount
                    = Cardinality(ScheduledDates({j}))
              /\ view.breakdown[r].completedCount
                    <= Cardinality(ScheduledDates({j}))
                         - Cardinality(Unbacked({j}, NULL))
        /\ view.stats.daysWithData = Cardinality(DatesWithData)
        /\ view.stats.totalTasks = TasksOf(DatesWithData)

\* the nine days up to today are rendered; a group is scheduled on a past
\* date that has no record, an ungrouped habit on a past date whose record
\* holds another id only; both rows count the date, the range does not
\* count the date without a record
C30_Witness ==
    /\ view.rendered
    /\ Len(view.dates) = DaysInWeek + 2
    /\ \E g \in GroupIds : \E r \in RowsOf(g) :
          /\ \E i \in Unbacked(Members(g), g) : view.dates[i] \notin DOMAIN history
          /\ view.breakdown[r].totalCount > view.breakdown[r].completedCount
    /\ \E j \in Members(NULL) :
          /\ \E i \in Unbacked({j}, NULL) :
                /\ view.dates[i] \in DOMAIN history
                /\ Len(history[view.dates[i]]) > 0
          /\ \A r \in RowsOf(NULL) :
                view.breakdown[r].totalCount = Cardinality(ScheduledDates({j}))
    /\ view.stats.daysWithData < Len(view.dates)
    /\ view.stats.totalTasks > 0
====
